---- MODULE Spec2Model ----
(***************************************************************************)
(* The audio pipeline of openrecall (src/openrecall/audio_capture.py) and  *)
(* the two HTTP handlers that drive it (src/openrecall/app.py).            *)
(*                                                                         *)
(* One AudioProcessor object (the module-level singleton audio_processor)  *)
(* is shared by the callers of start_recording / stop_recording and by the *)
(* threads those calls create: _record_audio (the Recorder) and            *)
(* _process_audio (the Segmenter), which calls _transcribe_audio.          *)
(*                                                                         *)
(* Granularity: a step of a caller is one source line of start_recording   *)
(* or stop_recording (each reads or writes a field of the shared object);  *)
(* a step of a thread is one access to shared state (the is_recording      *)
(* flag, the queue, the device, the store) with the thread-local code that *)
(* follows it.                                                             *)
(*                                                                         *)
(* Time: the wall clock counts half seconds, so that MIN_SILENCE_LENGTH    *)
(* (0.5 s) is 1. It is observed when a Segmenter processes a frame: `now`  *)
(* is the time of the latest frame processed, and what time.time() returns *)
(* for it.                                                                 *)
(***************************************************************************)
EXTENDS Integers, Sequences, FiniteSets, TLC

\* ------------------------------------------------------------------ bounds
\* control calls (start or stop) one caller issues in any order, and Thread
\* objects of each kind that are created
MaxCalls == 2
\* frames the device delivers before every further read fails: in a session,
\* and in the specification of the voice-activity detection
MaxFrames == 2
MaxVadFrames == 3
\* last value of the clock
MaxTime == 2
\* frames per debug snapshot: (RATE // CHUNK) * 10 = 150 in the source, scaled
DebugFrames == 2
\* failed reads of the device that are counted
MaxReadErrors == 2
\* segments the speech model returns for one buffer, and characters per segment
MaxSegments == 2
MaxTextLen == 2

\* --------------------------------------------------------- program constants
\* MIN_SILENCE_LENGTH = 0.5 seconds, in half seconds
MIN_SILENCE_LENGTH == 1

\* ------------------------------------------------------------------- state
VARIABLES
    is_recording,    \* AudioProcessor.is_recording
    record_thread,   \* AudioProcessor.record_thread: a thread id, NoThread while the attribute is unset
    process_thread,  \* AudioProcessor.process_thread, likewise
    audio_queue,     \* AudioProcessor.audio_queue: the frames put and not yet got
    debug_counter,   \* AudioProcessor.debug_counter
    rec,             \* the Thread objects made with target=_record_audio, and their locals
    seg,             \* the Thread objects made with target=_process_audio, and their locals
    ctl,             \* the callers of start_recording / stop_recording
    now,             \* the wall-clock time of the latest frame a Segmenter processed
    nread,           \* frames the device has delivered so far
    dequeued,        \* history: the frames audio_queue.get has returned, in order
    calls,           \* history: the control calls in the order they were issued
    transcriptions,  \* history: one record per call of _transcribe_audio
    entries,         \* the store: the rows insert_entry has written
    temp_wavs,       \* temporary .wav files that exist
    debug_wavs       \* debug snapshots written, by sequence number

vars == <<is_recording, record_thread, process_thread, audio_queue, debug_counter,
          rec, seg, ctl, now, nread, dequeued, calls, transcriptions, entries,
          temp_wavs, debug_wavs>>

\* the variables of the AudioProcessor object
fields == <<is_recording, record_thread, process_thread, audio_queue, debug_counter>>

NoThread == 0
Threads == 1..MaxCalls
NoTime == -1

\* ------------------------------------------------------------------ threads
\* threading.Thread: created ("new"), started (any other pc), terminated
\* by returning ("done") or by an exception leaving its target ("raised").
Created(th) == th.pc # "none"
Started(th) == th.pc \notin {"none", "new"}
Terminated(th) == th.pc \in {"done", "raised"}
\* Thread.is_alive()
is_alive(th) == Started(th) /\ ~Terminated(th)

\* the id the next Thread object of a family gets
NewThread(family) == 1 + Cardinality({k \in Threads : Created(family[k])})

NoRecorder ==
    [pc |-> "none", daemon |-> FALSE, stream |-> "none", debug_frames |-> <<>>, errors |-> 0]
NoSegmenter ==
    [pc |-> "none", daemon |-> FALSE, buffer |-> <<>>, silence_start |-> NoTime,
     site |-> "none", call |-> 0]

AliveRecorders == {k \in Threads : is_alive(rec[k])}
AliveSegmenters == {k \in Threads : is_alive(seg[k])}

\* ------------------------------------------------------------------ callers
\* The request-handling threads of the Flask application: /start_audio and
\* /stop_audio requests are served concurrently with each other.
Callers == {"h1", "h2"}

\* A caller rests ("idle" before its first call, then "returned" or "raised")
\* or stands before a line of start_recording / stop_recording.
Resting(c) == ctl[c].pc \in {"idle", "returned", "raised"}

NoCall == [pc |-> "idle", op |-> "none", exc |-> "none", target |-> NoThread, was_recording |-> FALSE]

Goto(c, pc) == ctl' = [ctl EXCEPT ![c].pc = pc]
Raise(c, exc) == ctl' = [ctl EXCEPT ![c].pc = "raised", ![c].exc = exc]

\* __init__: the queue is empty, the flag is off, the thread attributes do not exist
Init ==
    /\ is_recording = FALSE
    /\ record_thread = NoThread
    /\ process_thread = NoThread
    /\ audio_queue = <<>>
    /\ debug_counter = 0
    /\ rec = [k \in Threads |-> NoRecorder]
    /\ seg = [k \in Threads |-> NoSegmenter]
    /\ ctl = [c \in Callers |-> NoCall]
    /\ now = 0
    /\ nread = 0
    /\ dequeued = <<>>
    /\ calls = <<>>
    /\ transcriptions = <<>>
    /\ entries = <<>>
    /\ temp_wavs = 0
    /\ debug_wavs = {}

\* start_audio / stop_audio (app.py), start_audio_capture / stop_audio_capture:
\* a caller enters start_recording or stop_recording of the singleton.
Call(c, op) ==
    /\ Resting(c)
    /\ ctl' = [ctl EXCEPT ![c] = [pc |-> IF op = "start" THEN "l41" ELSE "l50",
                                  op |-> op, exc |-> "none", target |-> NoThread,
                                  was_recording |-> is_recording]]
    /\ calls' = Append(calls, op)
    /\ UNCHANGED <<fields, rec, seg, now, nread, dequeued, transcriptions, entries, temp_wavs, debug_wavs>>

\* line 41: self.is_recording = True
Start41(c) ==
    /\ ctl[c].pc = "l41"
    /\ is_recording' = TRUE
    /\ Goto(c, "l42")
    /\ UNCHANGED <<record_thread, process_thread, audio_queue, debug_counter, rec, seg,
                   now, nread, dequeued, calls, transcriptions, entries, temp_wavs, debug_wavs>>

\* line 42: self.record_thread = threading.Thread(target=self._record_audio)
Start42(c) ==
    /\ ctl[c].pc = "l42"
    /\ LET k == NewThread(rec) IN
        /\ k \in Threads
        /\ rec' = [rec EXCEPT ![k] = [NoRecorder EXCEPT !.pc = "new"]]
        /\ record_thread' = k
    /\ Goto(c, "l43")
    /\ UNCHANGED <<is_recording, process_thread, audio_queue, debug_counter, seg,
                   now, nread, dequeued, calls, transcriptions, entries, temp_wavs, debug_wavs>>

\* line 43: self.process_thread = threading.Thread(target=self._process_audio)
Start43(c) ==
    /\ ctl[c].pc = "l43"
    /\ LET k == NewThread(seg) IN
        /\ k \in Threads
        /\ seg' = [seg EXCEPT ![k] = [NoSegmenter EXCEPT !.pc = "new"]]
        /\ process_thread' = k
    /\ Goto(c, "l44")
    /\ UNCHANGED <<is_recording, record_thread, audio_queue, debug_counter, rec,
                   now, nread, dequeued, calls, transcriptions, entries, temp_wavs, debug_wavs>>

\* line 44: self.record_thread.daemon = True
\* (Thread.daemon raises RuntimeError once the thread has been started)
Start44(c) ==
    /\ ctl[c].pc = "l44"
    /\ IF Started(rec[record_thread])
       THEN Raise(c, "RuntimeError") /\ UNCHANGED rec
       ELSE Goto(c, "l45") /\ rec' = [rec EXCEPT ![record_thread].daemon = TRUE]
    /\ UNCHANGED <<fields, seg, now, nread, dequeued, calls, transcriptions, entries, temp_wavs, debug_wavs>>

\* line 45: self.process_thread.daemon = True
Start45(c) ==
    /\ ctl[c].pc = "l45"
    /\ IF Started(seg[process_thread])
       THEN Raise(c, "RuntimeError") /\ UNCHANGED seg
       ELSE Goto(c, "l46") /\ seg' = [seg EXCEPT ![process_thread].daemon = TRUE]
    /\ UNCHANGED <<fields, rec, now, nread, dequeued, calls, transcriptions, entries, temp_wavs, debug_wavs>>

\* line 46: self.record_thread.start()
\* (Thread.start raises RuntimeError when the thread was started before)
Start46(c) ==
    /\ ctl[c].pc = "l46"
    /\ IF Started(rec[record_thread])
       THEN Raise(c, "RuntimeError") /\ UNCHANGED rec
       ELSE Goto(c, "l47") /\ rec' = [rec EXCEPT ![record_thread].pc = "open"]
    /\ UNCHANGED <<fields, seg, now, nread, dequeued, calls, transcriptions, entries, temp_wavs, debug_wavs>>

\* line 47: self.process_thread.start(); start_recording returns
Start47(c) ==
    /\ ctl[c].pc = "l47"
    /\ IF Started(seg[process_thread])
       THEN Raise(c, "RuntimeError") /\ UNCHANGED seg
       ELSE Goto(c, "returned") /\ seg' = [seg EXCEPT ![process_thread].pc = "loop"]
    /\ UNCHANGED <<fields, rec, now, nread, dequeued, calls, transcriptions, entries, temp_wavs, debug_wavs>>

\* line 50: self.is_recording = False
Stop50(c) ==
    /\ ctl[c].pc = "l50"
    /\ is_recording' = FALSE
    /\ Goto(c, "l51")
    /\ UNCHANGED <<record_thread, process_thread, audio_queue, debug_counter, rec, seg,
                   now, nread, dequeued, calls, transcriptions, entries, temp_wavs, debug_wavs>>

\* stop_recording without lines 51-52: the Recorder is not joined
Stop51NoJoin(c) ==
    /\ ctl[c].pc = "l51"
    /\ Goto(c, "l53")
    /\ UNCHANGED <<fields, rec, seg, now, nread, dequeued, calls, transcriptions, entries, temp_wavs, debug_wavs>>

\* line 51: if self.record_thread.is_alive():
\* (AttributeError while no start_recording has assigned the attribute)
Stop51(c) ==
    /\ ctl[c].pc = "l51"
    /\ IF record_thread = NoThread THEN Raise(c, "AttributeError")
       ELSE IF is_alive(rec[record_thread]) THEN Goto(c, "l52")
       ELSE Goto(c, "l53")
    /\ UNCHANGED <<fields, rec, seg, now, nread, dequeued, calls, transcriptions, entries, temp_wavs, debug_wavs>>

\* line 52: self.record_thread.join(): the attribute is read again, and join
\* raises RuntimeError on a thread that has not been started
Stop52(c) ==
    /\ ctl[c].pc = "l52"
    /\ IF ~Started(rec[record_thread]) THEN Raise(c, "RuntimeError")
       ELSE ctl' = [ctl EXCEPT ![c].pc = "j52", ![c].target = record_thread]
    /\ UNCHANGED <<fields, rec, seg, now, nread, dequeued, calls, transcriptions, entries, temp_wavs, debug_wavs>>

\* line 52, inside join(): returns once the joined thread has terminated
Join52(c) ==
    /\ ctl[c].pc = "j52"
    /\ Terminated(rec[ctl[c].target])
    /\ Goto(c, "l53")
    /\ UNCHANGED <<fields, rec, seg, now, nread, dequeued, calls, transcriptions, entries, temp_wavs, debug_wavs>>

\* line 53: if self.process_thread.is_alive():
\* (AttributeError while a concurrent start_recording stands before line 43)
Stop53(c) ==
    /\ ctl[c].pc = "l53"
    /\ IF process_thread = NoThread THEN Raise(c, "AttributeError")
       ELSE IF is_alive(seg[process_thread]) THEN Goto(c, "l54")
       ELSE Goto(c, "returned")
    /\ UNCHANGED <<fields, rec, seg, now, nread, dequeued, calls, transcriptions, entries, temp_wavs, debug_wavs>>

\* line 54: self.process_thread.join()
Stop54(c) ==
    /\ ctl[c].pc = "l54"
    /\ IF ~Started(seg[process_thread]) THEN Raise(c, "RuntimeError")
       ELSE ctl' = [ctl EXCEPT ![c].pc = "j54", ![c].target = process_thread]
    /\ UNCHANGED <<fields, rec, seg, now, nread, dequeued, calls, transcriptions, entries, temp_wavs, debug_wavs>>

\* line 54, inside join(); stop_recording returns
Join54(c) ==
    /\ ctl[c].pc = "j54"
    /\ Terminated(seg[ctl[c].target])
    /\ Goto(c, "returned")
    /\ UNCHANGED <<fields, rec, seg, now, nread, dequeued, calls, transcriptions, entries, temp_wavs, debug_wavs>>

\* ----------------------------------------------------------------- Recorder
SetRec(t, pc) == rec' = [rec EXCEPT ![t].pc = pc]

\* lines 57-65: stream = self.p.open(...); debug_frames = []
\* (an exception of p.open leaves _record_audio: the thread ends)
RecOpen(t) ==
    /\ rec[t].pc = "open"
    /\ \/ rec' = [rec EXCEPT ![t].pc = "loop", ![t].stream = "open", ![t].debug_frames = <<>>]
       \/ SetRec(t, "raised")
    /\ UNCHANGED <<fields, seg, ctl, now, nread, dequeued, calls, transcriptions, entries, temp_wavs, debug_wavs>>

\* line 66 as `while True:`: the Recorder never looks at the flag
RecLoopForever(t) ==
    /\ rec[t].pc = "loop"
    /\ SetRec(t, "read")
    /\ UNCHANGED <<fields, seg, ctl, now, nread, dequeued, calls, transcriptions, entries, temp_wavs, debug_wavs>>

\* line 66: while self.is_recording:
RecLoop(t) ==
    /\ rec[t].pc = "loop"
    /\ IF is_recording THEN SetRec(t, "read") ELSE SetRec(t, "close")
    /\ UNCHANGED <<fields, seg, ctl, now, nread, dequeued, calls, transcriptions, entries, temp_wavs, debug_wavs>>

\* lines 83-94, _save_debug_audio(frames), as called at line 74 and followed by
\* line 75 (debug_frames = []): the counter is incremented first; an OSError of
\* wave.open or writeframes leaves the function, skips line 75 and is caught
\* at line 76.
SaveDebugAudio(t, frames) ==
    /\ debug_counter' = debug_counter + 1
    /\ \/ /\ debug_wavs' = debug_wavs \cup {[n |-> debug_counter + 1, frames |-> frames]}
          /\ rec' = [rec EXCEPT ![t].pc = "loop", ![t].debug_frames = <<>>]
       \/ /\ debug_wavs' = debug_wavs
          /\ rec' = [rec EXCEPT ![t].pc = "loop", ![t].debug_frames = frames]

\* lines 68-75: data = stream.read(...); self.audio_queue.put(data);
\* debug_frames.append(data); every DebugFrames frames, _save_debug_audio.
\* The device delivers `limit` frames, each loud or not as Louds allows.
RecReadOk(t, Louds, limit) ==
    /\ rec[t].pc = "read"
    /\ nread < limit
    /\ \E loud \in Louds :
        LET data == [id |-> nread + 1, loud |-> loud]
            frames == Append(rec[t].debug_frames, data)
        IN  /\ nread' = nread + 1
            /\ audio_queue' = Append(audio_queue, data)
            /\ IF Len(frames) >= DebugFrames
               THEN SaveDebugAudio(t, frames)
               ELSE /\ rec' = [rec EXCEPT ![t].pc = "loop", ![t].debug_frames = frames]
                    /\ UNCHANGED <<debug_counter, debug_wavs>>
    /\ UNCHANGED <<is_recording, record_thread, process_thread, seg, ctl, now, dequeued,
                   calls, transcriptions, entries, temp_wavs>>

\* stream.read raising an exception that line 76 does not catch: it leaves
\* _record_audio
RecReadErrorFatal(t, counted) ==
    /\ rec[t].pc = "read"
    /\ rec' = [rec EXCEPT ![t].pc = "raised",
                          ![t].errors = IF @ < counted THEN @ + 1 ELSE @]
    /\ UNCHANGED <<fields, seg, ctl, now, nread, dequeued, calls, transcriptions, entries, temp_wavs, debug_wavs>>

\* lines 68, 76-78: stream.read raises OSError; print, time.sleep(0.1).
\* (`errors` is a history: the failed reads of the thread, counted up to
\* `counted`.)
RecReadError(t, counted) ==
    /\ rec[t].pc = "read"
    /\ rec' = [rec EXCEPT ![t].pc = "loop",
                          ![t].errors = IF @ < counted THEN @ + 1 ELSE @]
    /\ UNCHANGED <<fields, seg, ctl, now, nread, dequeued, calls, transcriptions, entries, temp_wavs, debug_wavs>>

\* lines 80-81: stream.stop_stream(); stream.close(); _record_audio returns
RecClose(t) ==
    /\ rec[t].pc = "close"
    /\ rec' = [rec EXCEPT ![t].pc = "done", ![t].stream = "closed"]
    /\ UNCHANGED <<fields, seg, ctl, now, nread, dequeued, calls, transcriptions, entries, temp_wavs, debug_wavs>>

\* ---------------------------------------------------------------- Segmenter
\* np.abs(np_data).mean() < SILENCE_THRESHOLD (line 109): a frame is quiet or loud
Quiet(data) == ~data.loud

\* the wall-clock times at which the next frame may be processed, never
\* earlier than the frame before it; time.time() returns that time
Clock == now..MaxTime

\* the call self._transcribe_audio(b"".join(buffer)) at line 116, 122 or 127:
\* the Segmenter enters _transcribe_audio with its buffer
CallTranscribe(t, site, buffer) ==
    /\ seg' = [seg EXCEPT ![t].pc = "wav", ![t].site = site, ![t].buffer = buffer,
                          ![t].call = Len(transcriptions) + 1]
    /\ transcriptions' = Append(transcriptions,
            [audio_chunk |-> buffer, site |-> site, outcome |-> "running", segments |-> <<>>,
             failed |-> 0])

\* line 100, first operand: while self.is_recording or ...
SegLoop(t) ==
    /\ seg[t].pc = "loop"
    /\ seg' = [seg EXCEPT ![t].pc = IF is_recording THEN "get" ELSE "empty"]
    /\ UNCHANGED <<fields, rec, ctl, now, nread, dequeued, calls, transcriptions, entries, temp_wavs, debug_wavs>>

\* line 100, second operand: ... or not self.audio_queue.empty(); when the
\* loop ends, lines 126-127: if buffer: self._transcribe_audio(...)
SegEmpty(t) ==
    /\ seg[t].pc = "empty"
    /\ IF audio_queue # <<>>
       THEN seg' = [seg EXCEPT ![t].pc = "get"] /\ UNCHANGED transcriptions
       ELSE IF seg[t].buffer # <<>>
            THEN CallTranscribe(t, "l127", seg[t].buffer)
            ELSE seg' = [seg EXCEPT ![t].pc = "done"] /\ UNCHANGED transcriptions
    /\ UNCHANGED <<fields, rec, ctl, now, nread, dequeued, calls, entries, temp_wavs, debug_wavs>>

\* lines 109-118, the voice-activity step on the frame just appended to
\* `buffer`, time.time() (lines 111 and 113) returning tm
SegVad(t, data, buffer, tm) ==
    IF Quiet(data)
    THEN /\ seg' = [seg EXCEPT ![t].pc = "loop", ![t].buffer = buffer,
                        ![t].silence_start = IF seg[t].silence_start = NoTime
                                             THEN tm ELSE seg[t].silence_start]
         /\ UNCHANGED transcriptions
    ELSE IF seg[t].silence_start # NoTime
         THEN IF tm - seg[t].silence_start >= MIN_SILENCE_LENGTH
              THEN CallTranscribe(t, "l116", buffer)
              ELSE /\ seg' = [seg EXCEPT ![t].pc = "loop", ![t].buffer = buffer,
                                  ![t].silence_start = NoTime]
                   /\ UNCHANGED transcriptions
         ELSE /\ seg' = [seg EXCEPT ![t].pc = "loop", ![t].buffer = buffer]
              /\ UNCHANGED transcriptions

\* line 102 with a queue that returns its newest item (a queue.LifoQueue)
SegGetLifo(t) ==
    /\ seg[t].pc = "get"
    /\ audio_queue # <<>>
    /\ audio_queue' = SubSeq(audio_queue, 1, Len(audio_queue) - 1)
    /\ LET data == audio_queue[Len(audio_queue)] IN
        /\ dequeued' = Append(dequeued, data)
        /\ \E tm \in Clock :
            /\ now' = tm
            /\ SegVad(t, data, Append(seg[t].buffer, data), tm)
    /\ UNCHANGED <<is_recording, record_thread, process_thread, debug_counter, rec, ctl,
                   nread, calls, entries, temp_wavs, debug_wavs>>

\* lines 102-103: data = self.audio_queue.get(timeout=1); buffer.append(data);
\* then the voice-activity step
SegGet(t) ==
    /\ seg[t].pc = "get"
    /\ audio_queue # <<>>
    /\ audio_queue' = Tail(audio_queue)
    /\ LET data == Head(audio_queue) IN
        /\ dequeued' = Append(dequeued, data)
        /\ \E tm \in Clock :
            /\ now' = tm
            /\ SegVad(t, data, Append(seg[t].buffer, data), tm)
    /\ UNCHANGED <<is_recording, record_thread, process_thread, debug_counter, rec, ctl,
                   nread, calls, entries, temp_wavs, debug_wavs>>

\* lines 119-123 without the test of line 121 (if buffer:)
SegTimeoutNoTest(t) ==
    /\ seg[t].pc = "get"
    /\ audio_queue = <<>>
    /\ CallTranscribe(t, "l122", seg[t].buffer)
    /\ UNCHANGED <<fields, rec, ctl, now, nread, dequeued, calls, entries, temp_wavs, debug_wavs>>

\* lines 119-123 flushing only while a silence timer runs
SegTimeoutIfSilent(t) ==
    /\ seg[t].pc = "get"
    /\ audio_queue = <<>>
    /\ IF seg[t].buffer # <<>> /\ seg[t].silence_start # NoTime
       THEN CallTranscribe(t, "l122", seg[t].buffer)
       ELSE seg' = [seg EXCEPT ![t].pc = "loop"] /\ UNCHANGED transcriptions
    /\ UNCHANGED <<fields, rec, ctl, now, nread, dequeued, calls, entries, temp_wavs, debug_wavs>>

\* lines 102, 119-123: get raises queue.Empty after its timeout; a non-empty
\* buffer is transcribed. (The second of waiting is not measured against
\* `now`: any time may pass between two steps of a thread.)
SegTimeout(t) ==
    /\ seg[t].pc = "get"
    /\ audio_queue = <<>>
    /\ IF seg[t].buffer # <<>>
       THEN CallTranscribe(t, "l122", seg[t].buffer)
       ELSE seg' = [seg EXCEPT ![t].pc = "loop"] /\ UNCHANGED transcriptions
    /\ UNCHANGED <<fields, rec, ctl, now, nread, dequeued, calls, entries, temp_wavs, debug_wavs>>

\* --------------------------------------------------------------- Transcriber
\* str.strip() on a text, a sequence of characters of which " " is whitespace
RECURSIVE LStrip(_)
LStrip(s) == IF s # <<>> /\ Head(s) = " " THEN LStrip(Tail(s)) ELSE s
RECURSIVE RStrip(_)
RStrip(s) == IF s # <<>> /\ s[Len(s)] = " " THEN RStrip(SubSeq(s, 1, Len(s) - 1)) ELSE s
Strip(s) == RStrip(LStrip(s))

\* lines 131-144: the temporary .wav file is created (delete=False) and the
\* audio written to it, outside the try: an OSError of the creation or of
\* the writing leaves _transcribe_audio and _process_audio, and the thread
\* ends (after a failed write the file stays)
SegWav(t) ==
    /\ seg[t].pc = "wav"
    /\ \/ /\ temp_wavs' = temp_wavs + 1
          /\ seg' = [seg EXCEPT ![t].pc = "model"]
          /\ UNCHANGED transcriptions
       \/ /\ temp_wavs' = temp_wavs
          /\ seg' = [seg EXCEPT ![t].pc = "raised"]
          /\ transcriptions' = [transcriptions EXCEPT ![seg[t].call].outcome = "wav_error"]
       \/ /\ temp_wavs' = temp_wavs + 1
          /\ seg' = [seg EXCEPT ![t].pc = "raised"]
          /\ transcriptions' = [transcriptions EXCEPT ![seg[t].call].outcome = "wav_error"]
    /\ UNCHANGED <<fields, rec, ctl, now, nread, dequeued, calls, entries, debug_wavs>>

\* the for loop without line 152 (if text:): every segment is inserted
RECURSIVE ForSegmentsNoTest(_, _, _)
ForSegmentsNoTest(segments, i, at) ==
    IF i > Len(segments) \/ i = at THEN <<>>
    ELSE <<Strip(segments[i])>> \o ForSegmentsNoTest(segments, i + 1, at)

\* lines 150-164, the for loop from its i-th turn: text = segment.text.strip();
\* if text: get_embedding, insert_entry. The texts inserted when the call of
\* get_embedding or insert_entry of turn `at` raises (at = 0: none does): the
\* exception leaves the loop for line 165.
RECURSIVE ForSegments(_, _, _)
ForSegments(segments, i, at) ==
    IF i > Len(segments) THEN <<>>
    ELSE LET text == Strip(segments[i]) IN
         IF text # <<>>
         THEN IF i = at THEN <<>> ELSE <<text>> \o ForSegments(segments, i + 1, at)
         ELSE ForSegments(segments, i + 1, at)

\* the turns of the loop that call get_embedding and insert_entry
Inserting(segments) == {i \in 1..Len(segments) : Strip(segments[i]) # <<>>}

\* lines 157-163: insert_entry(text, timestamp, embedding, "AudioTranscription", ...)
\* (the timestamp, the label made of it and the embedding are left out)
Entry(t, text) == [text |-> text, source |-> "AudioTranscription", call |-> seg[t].call]

\* the return of _transcribe_audio without lines 117 and 123: the buffer is
\* kept after a flush
ReturnKeepsBuffer(t) ==
    seg' = [seg EXCEPT ![t].pc = IF seg[t].site = "l127" THEN "done" ELSE "loop",
                       ![t].silence_start = IF seg[t].site = "l116" THEN NoTime
                                            ELSE seg[t].silence_start]

\* the return of _transcribe_audio to line 117-118 (buffer = [];
\* silence_start = None), to line 123 (buffer = []) or to the end of
\* _process_audio
Return(t) ==
    seg' = [seg EXCEPT ![t].pc = IF seg[t].site = "l127" THEN "done" ELSE "loop",
                       ![t].buffer = IF seg[t].site = "l127" THEN seg[t].buffer ELSE <<>>,
                       ![t].silence_start = IF seg[t].site = "l116" THEN NoTime
                                            ELSE seg[t].silence_start]

\* _transcribe_audio without the except clause of line 165: an exception of
\* the model leaves _transcribe_audio (after the finally) and _process_audio
SegModelUncaught(t, Results) ==
    /\ seg[t].pc = "model"
    /\ \/ /\ \E segments \in Results : \E at \in {0} \cup Inserting(segments) :
                LET texts == ForSegments(segments, 1, at) IN
                /\ entries' = entries \o [i \in 1..Len(texts) |-> Entry(t, texts[i])]
                /\ transcriptions' = [transcriptions EXCEPT
                        ![seg[t].call].segments = segments,
                        ![seg[t].call].outcome = IF at = 0 THEN "ok" ELSE "store_error",
                        ![seg[t].call].failed = at]
          /\ Return(t)
       \/ /\ transcriptions' = [transcriptions EXCEPT ![seg[t].call].outcome = "model_error"]
          /\ seg' = [seg EXCEPT ![t].pc = "raised"]
          /\ UNCHANGED entries
    /\ temp_wavs' = temp_wavs - 1
    /\ UNCHANGED <<fields, rec, ctl, now, nread, dequeued, calls, debug_wavs>>

\* lines 146-169: model.transcribe and the loop over its segments, an
\* exception of the model, the embedding or the store caught at line 165;
\* finally os.unlink(temp_wav_path)
SegModel(t, Results) ==
    /\ seg[t].pc = "model"
    /\ \/ \E segments \in Results : \E at \in {0} \cup Inserting(segments) :
            LET texts == ForSegments(segments, 1, at) IN
            /\ entries' = entries \o [i \in 1..Len(texts) |-> Entry(t, texts[i])]
            /\ transcriptions' = [transcriptions EXCEPT
                    ![seg[t].call].segments = segments,
                    ![seg[t].call].outcome = IF at = 0 THEN "ok" ELSE "store_error",
                        ![seg[t].call].failed = at]
       \/ /\ transcriptions' = [transcriptions EXCEPT ![seg[t].call].outcome = "model_error"]
          /\ UNCHANGED entries
    /\ temp_wavs' = temp_wavs - 1
    /\ Return(t)
    /\ UNCHANGED <<fields, rec, ctl, now, nread, dequeued, calls, debug_wavs>>

\* ----------------------------------------------------------- specifications
\* what the speech model may return: texts over a letter and a blank
Chars == {"a", " "}
Texts(n) == UNION {[1..m -> Chars] : m \in 0..n}
ModelResults(k, n) == UNION {[1..m -> Texts(n)] : m \in 0..k}
\* the model hears nothing
NoSegments == {<<>>}

Control(c) ==
    \/ Start41(c) \/ Start42(c) \/ Start43(c) \/ Start44(c) \/ Start45(c)
    \/ Start46(c) \/ Start47(c)
    \/ Stop50(c) \/ Stop51(c) \/ Stop52(c) \/ Join52(c)
    \/ Stop53(c) \/ Stop54(c) \/ Join54(c)

Recorder(t, Louds, limit, counted) ==
    \/ RecOpen(t) \/ RecLoop(t) \/ RecReadOk(t, Louds, limit) \/ RecReadError(t, counted)
    \/ RecClose(t)

Segmenter(t, Results) ==
    \/ SegLoop(t) \/ SegEmpty(t) \/ SegGet(t) \/ SegTimeout(t)
    \/ SegWav(t) \/ SegModel(t, Results)

\* One session: a caller calls start_recording and, at any moment after it has
\* returned, stop_recording. The device, the file system and the model may
\* fail; the model returns no segment. (Failed reads are counted in
\* RecorderSpec alone: 0 elsewhere.)
Session(c) ==
    \/ calls = <<>> /\ Call(c, "start")
    \/ calls = <<"start">> /\ Call(c, "stop")

Next ==
    \/ Session("h1")
    \/ Control("h1")
    \/ \E t \in Threads : Recorder(t, BOOLEAN, MaxFrames, 0)
    \/ \E t \in Threads : Segmenter(t, NoSegments)

Spec == Init /\ [][Next]_vars

\* The same session under fair scheduling: a thread that can take a step
\* eventually takes one (every device read and every call of the Transcriber
\* returns), and so does a caller inside a call. No call has to be issued.
Fairness ==
    /\ WF_vars(Control("h1"))
    /\ \A t \in Threads : WF_vars(Recorder(t, BOOLEAN, MaxFrames, 0))
    /\ \A t \in Threads : WF_vars(Segmenter(t, NoSegments))

FairSpec == Init /\ [][Next]_vars /\ Fairness

\* A session in which the model returns nothing and the frames are many
\* enough for a loud run, a silence and a second loud run.
VadNext ==
    \/ Session("h1")
    \/ Control("h1")
    \/ \E t \in Threads : Recorder(t, BOOLEAN, MaxVadFrames, 0)
    \/ \E t \in Threads : Segmenter(t, NoSegments)

VadSpec == Init /\ [][VadNext]_vars

\* A session in which the device delivers a single frame, so that one buffer
\* is transcribed, and the model returns any segments for it.
TranscriberNext ==
    \/ Session("h1")
    \/ Control("h1")
    \/ \E t \in Threads : Recorder(t, {TRUE}, 1, 0)
    \/ \E t \in Threads : Segmenter(t, ModelResults(MaxSegments, MaxTextLen))

TranscriberSpec == Init /\ [][TranscriberNext]_vars

\* what the speech model returns in a session of several buffers: nothing, or
\* one segment
Heard == {<<>>, << <<"a">> >>}

\* A session in which the device, the file system, the model and the store
\* may fail and the model may return a segment.
PipelineNext ==
    \/ Session("h1")
    \/ Control("h1")
    \/ \E t \in Threads : Recorder(t, BOOLEAN, MaxFrames, 0)
    \/ \E t \in Threads : Segmenter(t, Heard)

PipelineSpec == Init /\ [][PipelineNext]_vars

\* A session in which the failed reads of the device are counted; every frame
\* is loud and the model returns nothing.
RecorderNext ==
    \/ Session("h1")
    \/ Control("h1")
    \/ \E t \in Threads : Recorder(t, {TRUE}, MaxFrames, MaxReadErrors)
    \/ \E t \in Threads : Segmenter(t, NoSegments)

RecorderSpec == Init /\ [][RecorderNext]_vars

\* One caller issues start and stop calls one after the other, in any order.
ControlNext ==
    \/ \E op \in {"start", "stop"} : Len(calls) < MaxCalls /\ Call("h1", op)
    \/ Control("h1")
    \/ \E t \in Threads : Recorder(t, BOOLEAN, MaxFrames, 0)
    \/ \E t \in Threads : Segmenter(t, NoSegments)

ControlSpec == Init /\ [][ControlNext]_vars

\* A session of one caller, and a second caller who calls start_recording
\* while the first caller's stop_recording is in progress. The device
\* delivers a single, loud frame.
Concurrent ==
    \/ calls = <<>> /\ Call("h1", "start")
    \/ /\ ctl["h1"].op = "start" /\ ctl["h1"].pc = "returned"
       /\ Call("h1", "stop")
    \/ /\ ctl["h1"].op = "stop" /\ ~Resting("h1")
       /\ ctl["h2"].pc = "idle"
       /\ Call("h2", "start")

ConcurrentNext ==
    \/ Concurrent
    \/ \E c \in Callers : Control(c)
    \/ \E t \in Threads : Recorder(t, {TRUE}, 1, 0)
    \/ \E t \in Threads : Segmenter(t, NoSegments)

ConcurrentSpec == Init /\ [][ConcurrentNext]_vars

\* ------------------------------------------------------------------- claims
StopReturned(c) == ctl[c].op = "stop" /\ ctl[c].pc = "returned"
StartReturned(c) == ctl[c].op = "start" /\ ctl[c].pc = "returned"
InStop(c) == ctl[c].op = "stop" /\ ~Resting(c)

\* the frames handed to the Transcriber so far
Transcribed ==
    UNION {{transcriptions[i].audio_chunk[j].id : j \in 1..Len(transcriptions[i].audio_chunk)} :
            i \in 1..Len(transcriptions)}

\* C3: after one start() and one stop(), when stop() has returned the
\* Recorder and the Segmenter of that start() have terminated and no device
\* stream is open (so no frame can be read any more).
C3_StopLeavesNothingRunning ==
    StopReturned("h1") =>
        /\ AliveRecorders = {}
        /\ AliveSegmenters = {}
        /\ \A k \in Threads : rec[k].stream # "open"

\* C3 witness: stop() has returned after a session in which the device was
\* opened and read, and both threads ran to their end.
C3_Witness ==
    /\ StopReturned("h1")
    /\ rec[1].stream = "closed" /\ rec[1].pc = "done" /\ seg[1].pc = "done"
    /\ nread > 0

\* C4: when stop() returns the queue is empty and every frame the Recorder
\* pushed has been handed to the Transcriber (stated for the sessions in which
\* the Segmenter ended by returning, not by an exception).
C4_StopReturnsDrained ==
    (StopReturned("h1") /\ seg[1].pc = "done") =>
        /\ audio_queue = <<>>
        /\ \A id \in 1..nread : id \in Transcribed

\* C5: under fair scheduling a stop() that is in progress returns.
C5_StopReturns == InStop("h1") ~> StopReturned("h1")

\* C5 witness: stop() has returned in a session whose device failed to open.
C5_Witness == StopReturned("h1") /\ rec[1].pc = "raised" /\ rec[1].stream = "none"

\* C7: when the device cannot be opened, start() raises to its caller, the
\* pipeline is not marked active and no Segmenter is left running.
C7_OpenFailurePropagates ==
    \A k \in Threads :
        (rec[k].pc = "raised" /\ ctl["h1"].op = "start" /\ Resting("h1")) =>
            /\ ctl["h1"].pc = "raised"
            /\ ~is_recording
            /\ AliveSegmenters = {}

\* C1: at most one Recorder and at most one Segmenter are alive at any time,
\* whatever start() and stop() calls were made (a start() on a running
\* pipeline spawns nothing).
C1_AtMostOneWorkerEach ==
    /\ Cardinality(AliveRecorders) <= 1
    /\ Cardinality(AliveSegmenters) <= 1

\* C2: a stop() called while the pipeline is not running (stopped before, or
\* never started) does not raise and leaves the pipeline as it was.
C2_StopWhenStoppedIsNoOp ==
    \A c \in Callers :
        (ctl[c].op = "stop" /\ ~ctl[c].was_recording) =>
            /\ ctl[c].pc # "raised"
            /\ ~is_recording

\* C6: when a start() of another caller ran during a stop() on a running
\* pipeline, once both calls have returned at most one Recorder and one
\* Segmenter are alive.
C6_ConcurrentCallsLeaveOnePipeline ==
    (StopReturned("h1") /\ StartReturned("h2")) =>
        /\ Cardinality(AliveRecorders) <= 1
        /\ Cardinality(AliveSegmenters) <= 1

\* the whitespace-trimmed text: from its first to its last non-blank character
Trimmed(s) ==
    LET letters == {i \in 1..Len(s) : s[i] # " "} IN
    IF letters = {} THEN <<>>
    ELSE SubSeq(s, CHOOSE i \in letters : \A j \in letters : i <= j,
                   CHOOSE i \in letters : \A j \in letters : i >= j)

\* the Entries persisted by the i-th call of the Transcriber, in order
EntriesOf(i) == SelectSeq(entries, LAMBDA e : e.call = i)

\* C8: for every buffer transcribed without a failure, the Entries persisted
\* for it are the returned segments whose trimmed text is not empty, one
\* Entry each, in the order returned, each tagged "AudioTranscription".
C8_EntriesAreNonEmptySegments ==
    \A i \in 1..Len(transcriptions) :
        transcriptions[i].outcome = "ok" =>
            LET texts == [k \in 1..Len(transcriptions[i].segments) |->
                                Trimmed(transcriptions[i].segments[k])]
                kept == SelectSeq(texts, LAMBDA x : x # <<>>)
            IN  EntriesOf(i) = [k \in 1..Len(kept) |->
                    [text |-> kept[k], source |-> "AudioTranscription", call |-> i]]

\* C8 witness: a buffer was transcribed into a segment with blanks around its
\* text and a blank segment, and an Entry was persisted.
C8_Witness ==
    \E i \in 1..Len(transcriptions) :
        /\ transcriptions[i].outcome = "ok"
        /\ transcriptions[i].segments = << <<" ", "a">>, <<" ">> >>
        /\ EntriesOf(i) # <<>>

\* a buffer that holds a loud frame, a later quiet frame and a still later
\* loud frame: frames of two loud runs
SpansTwoLoudRuns(chunk) ==
    \E a, b, c \in 1..Len(chunk) :
        a < b /\ b < c /\ chunk[a].loud /\ ~chunk[b].loud /\ chunk[c].loud

\* C9: a buffer flushed at the boundary (on the loud frame that ends a
\* silence of at least the minimum-silence-duration, line 116) never holds
\* frames of both the loud run before the silence and the loud run after it.
C9_LoudRunsInDistinctBuffers ==
    \A i \in 1..Len(transcriptions) :
        transcriptions[i].site = "l116" => ~SpansTwoLoudRuns(transcriptions[i].audio_chunk)

\* C10: a quiet frame processed when the silence timer has run for at least
\* the minimum-silence-duration is flushed with the buffer: it is never left
\* buffered with the timer still running.
C10_QuietFrameFlushesAfterMinSilence ==
    \A t \in Threads :
        (/\ seg[t].pc = "loop"
         /\ seg[t].buffer # <<>>
         /\ Quiet(seg[t].buffer[Len(seg[t].buffer)])
         /\ seg[t].silence_start # NoTime) =>
            now - seg[t].silence_start < MIN_SILENCE_LENGTH

\* the frames of a buffer
Ids(chunk) == {chunk[j].id : j \in 1..Len(chunk)}

C12_StoreFailureIsPerSegment ==
    \A i \in 1..Len(transcriptions) :
        transcriptions[i].outcome = "store_error" =>
            LET segments == transcriptions[i].segments
                others == SelectSeq([k \in 1..Len(segments) |-> k],
                            LAMBDA k : k # transcriptions[i].failed /\ Trimmed(segments[k]) # <<>>)
            IN  EntriesOf(i) = [k \in 1..Len(others) |->
                    [text |-> Trimmed(segments[others[k]]), source |-> "AudioTranscription",
                     call |-> i]]

\* the ids of the frames of a sequence, in order
IdSeq(frames) == [k \in 1..Len(frames) |-> frames[k].id]

\* C13: in a session (one Recorder), the frames dequeued so far followed by
\* the frames in the queue are the frames read from the device so far, in the
\* order read, each once.
C13_QueueKeepsCaptureOrder ==
    IdSeq(dequeued \o audio_queue) = [k \in 1..nread |-> k]

\* C13 witness: every frame the device delivers has been read, the first is
\* dequeued and a later one is still queued.
C13_Witness ==
    /\ nread = MaxFrames
    /\ dequeued # <<>>
    /\ audio_queue # <<>>

\* the buffers handed to the Transcriber from the i-th call on, one after the other
RECURSIVE Flushed(_)
Flushed(i) ==
    IF i > Len(transcriptions) THEN <<>>
    ELSE transcriptions[i].audio_chunk \o Flushed(i + 1)

\* the calls of the Transcriber made after the loop, at line 127
ShutdownFlushes == {i \in 1..Len(transcriptions) : transcriptions[i].site = "l127"}

\* C14: when the Segmenter of a session has terminated, the buffers it handed
\* to the Transcriber, in flush order, make up the sequence of frames it
\* dequeued, and at most one of them was flushed on the shutdown path.
C14_FlushedBuffersAreDequeuedFrames ==
    Terminated(seg[1]) =>
        /\ Flushed(1) = dequeued
        /\ Cardinality(ShutdownFlushes) <= 1

\* C14 witness: the Segmenter has ended after a flush inside its loop and a
\* flush of the trailing buffer on the shutdown path.
C14_Witness ==
    /\ seg[1].pc = "done"
    /\ Len(transcriptions) = 2
    /\ transcriptions[1].site # "l127"
    /\ transcriptions[2].site = "l127"

\* C15: a running Segmenter whose buffer is empty has no silence timer
\* running (the timer is reset by every flush).
C15_EmptyBufferHasNoTimer ==
    \A t \in Threads :
        (is_alive(seg[t]) /\ seg[t].buffer = <<>>) => seg[t].silence_start = NoTime

\* a step in which the wait of Segmenter t for a frame times out on a
\* non-empty buffer
TimesOut(t) ==
    /\ seg[t].pc = "get" /\ audio_queue = <<>> /\ seg[t].buffer # <<>>
    /\ seg'[t] # seg[t]

\* a step in which the Transcriber returns to Segmenter t from a call made on
\* a timeout
ReturnsFromTimeoutFlush(t) ==
    /\ seg[t].pc = "model" /\ seg[t].site = "l122"
    /\ seg'[t] # seg[t]

\* the frames dequeued and not handed to the Transcriber yet
Unflushed == Ids(dequeued) \ Transcribed

\* C16: a timeout of the wait on a non-empty buffer hands the whole buffer to
\* the Transcriber, timer or no timer, and the buffer is empty when the
\* Transcriber has returned; so, under fair scheduling, frames that are
\* buffered are flushed, also when the device delivers no further frame and
\* stop() is never called.
C16_TimeoutFlushesBuffer ==
    /\ [][\A t \in Threads :
            /\ TimesOut(t) =>
                /\ Len(transcriptions') = Len(transcriptions) + 1
                /\ transcriptions'[Len(transcriptions')].audio_chunk = seg[t].buffer
                /\ transcriptions'[Len(transcriptions')].site = "l122"
            /\ ReturnsFromTimeoutFlush(t) =>
                /\ seg'[t].buffer = <<>>
                /\ seg'[t].pc = "loop"]_vars
    /\ (Unflushed # {}) ~> (Unflushed = {})

\* C16 witness: a buffer of a loud frame, no silence timer running, has been
\* flushed on a timeout while capture was enabled, and the Segmenter is back
\* in its loop with an empty buffer.
C16_Witness ==
    \E t \in Threads :
        /\ is_recording
        /\ seg[t].pc = "loop" /\ seg[t].site = "l122" /\ seg[t].buffer = <<>>
        /\ seg[t].silence_start = NoTime
        /\ transcriptions[seg[t].call].audio_chunk[1].loud

\* a call of _transcribe_audio is in progress
Transcribing == \E t \in Threads : seg[t].pc \in {"wav", "model"}

\* C17: whenever no call of the Transcriber is in progress, no temporary
\* .wav file exists, however the calls made so far have ended.
C17_NoTempFileOutsideTranscription ==
    ~Transcribing => temp_wavs = 0

\* C18: a read of the device that fails puts nothing on the queue and leaves
\* the Recorder at the head of its loop with the stream open; from there the
\* Recorder reads again while capture is enabled; it leaves the loop only
\* with capture disabled, and then closes the stream and ends.
C18_ReadFailureKeepsRecorderLooping ==
    [][\A t \in Threads :
        /\ (rec[t].pc = "read" /\ rec'[t] # rec[t] /\ nread' = nread) =>
                /\ audio_queue' = audio_queue
                /\ rec'[t].pc = "loop" /\ rec'[t].stream = "open"
        /\ (rec[t].pc = "loop" /\ rec'[t] # rec[t]) =>
                rec'[t].pc = IF is_recording THEN "read" ELSE "close"
        /\ (rec[t].pc = "close" /\ rec'[t] # rec[t]) =>
                rec'[t].pc = "done" /\ rec'[t].stream = "closed"]_vars

\* C18 witness: after two failed reads the Recorder has read every frame the
\* device delivers, and on stop() it has closed the stream and ended.
C18_Witness ==
    /\ rec[1].errors = MaxReadErrors
    /\ nread = MaxFrames
    /\ Len(dequeued \o audio_queue) = MaxFrames
    /\ rec[1].pc = "done" /\ rec[1].stream = "closed"

\* C19: a write of a debug snapshot that fails leaves the Recorder in its
\* loop with the accumulator cleared: at the head of the loop the
\* accumulator never holds a full snapshot, so that a save is attempted only
\* every DebugFrames frames.
C19_DebugSaveFailureClearsAccumulator ==
    \A t \in Threads :
        rec[t].pc = "loop" => Len(rec[t].debug_frames) < DebugFrames

\* C20: every buffer handed to the Transcriber holds at least one frame, and
\* a Segmenter to whose loop the Transcriber returns has an empty buffer.
C20_FlushedBufferIsNeverEmpty ==
    /\ [](\A i \in 1..Len(transcriptions) : transcriptions[i].audio_chunk # <<>>)
    /\ [][\A t \in Threads :
            (seg[t].pc = "model" /\ seg'[t].pc = "loop") => seg'[t].buffer = <<>>]_vars

\* C20 witness: a buffer of two frames has been flushed at the silence
\* boundary and the Segmenter is back in its loop with an empty buffer.
C20_Witness ==
    \E t \in Threads :
        /\ seg[t].pc = "loop" /\ seg[t].site = "l116" /\ seg[t].buffer = <<>>
        /\ Len(transcriptions[seg[t].call].audio_chunk) = 2

====
